---- MODULE Spec2Model ----
(***************************************************************************)
(* Model of textract_poc/extract_revenue.py: the reconstruction of a table *)
(* matrix from a flat, relationally linked block list and the lookup of    *)
(* the Revenue cell by row label and column header.                        *)
(*                                                                         *)
(* A Python str is the sequence of its code points; a dict is a function   *)
(* whose DOMAIN is the set of keys present; Optional[x] is <<>> for None   *)
(* and <<x>> otherwise; a raised exception is a result of its own.         *)
(***************************************************************************)
EXTENDS Integers, Sequences, FiniteSets, TLC

VARIABLES
    blocks,           \* response["Blocks"]: the flat block list
    target_year,      \* Optional[str] argument of analyze_pdf_and_extract
    pc,               \* position of the run inside analyze_pdf_and_extract
    id_to_block,      \* index built by build_block_index
    pages,            \* sorted page numbers present on blocks
    page_i,           \* position of the page loop in pages (1-based)
    target_page,      \* Optional[int]
    tables,           \* TABLE blocks of the target page
    table_i,          \* position of the table loop in tables (1-based)
    matrix,           \* matrix of the table being processed
    year_col_idx,     \* Optional[int]
    revenue_row_idx,  \* Optional[int]
    value,            \* Optional[str]: first component of the returned tuple
    debug,            \* Optional[str]: second component of the returned tuple
    examined,         \* history: pages handed to page_contains_phrase, in order
    built,            \* history: positions in tables handed to build_table_matrix
    u_block,          \* unit run: block handed to extract_text_from_block
    u_text,           \* unit run: Optional[str] it returned
    m_table,          \* unit run: table handed to the two find_ functions
    m_query,          \* unit run: header/label query
    v_table,          \* unit run: the same table in another case/padding
    v_query,          \* unit run: the same query in another case/padding
    m_col,            \* unit run: <<find_column_index_by_header(m_table, m_query)>>
    v_col,            \* unit run: the same on the variant
    m_row,            \* unit run: <<find_row_index_by_label(m_table, m_query)>>
    v_row             \* unit run: the same on the variant

orchVars == <<blocks, target_year, pc, id_to_block, pages, page_i, target_page,
              tables, table_i, matrix, year_col_idx, revenue_row_idx, value,
              debug, examined, built>>
textVars == <<u_block, u_text>>
matchVars == <<m_table, m_query, v_table, v_query, m_col, v_col, m_row, v_row>>
vars == <<orchVars, textVars, matchVars>>

None == <<>>
Some(x) == <<x>>

(***************************************************************************)
(* Python built-ins used by the source.                                    *)
(***************************************************************************)
\* str.isspace(): the code points str.strip() removes
Whitespace ==
    (9..13) \cup (28..32) \cup {133, 160, 5760} \cup (8192..8202)
    \cup {8232, 8233, 8239, 8287, 12288}

\* dict.get(k, d)
Get(b, k, d) == IF k \in DOMAIN b THEN b[k] ELSE d

\* <<first, last, step, offset>>: str.lower() adds offset to the code points
\* first, first + step, ..., last (Unicode 14.0.0)
LowerRuns == {
    <<65,90,1,32>>, <<192,214,1,32>>, <<216,222,1,32>>, <<256,302,2,1>>,
    <<306,310,2,1>>, <<313,327,2,1>>, <<330,374,2,1>>, <<376,376,1,-121>>,
    <<377,381,2,1>>, <<385,385,1,210>>, <<386,388,2,1>>, <<390,390,1,206>>,
    <<391,391,1,1>>, <<393,394,1,205>>, <<395,395,1,1>>, <<398,398,1,79>>,
    <<399,399,1,202>>, <<400,400,1,203>>, <<401,401,1,1>>, <<403,403,1,205>>,
    <<404,404,1,207>>, <<406,406,1,211>>, <<407,407,1,209>>, <<408,408,1,1>>,
    <<412,412,1,211>>, <<413,413,1,213>>, <<415,415,1,214>>, <<416,420,2,1>>,
    <<422,422,1,218>>, <<423,423,1,1>>, <<425,425,1,218>>, <<428,428,1,1>>,
    <<430,430,1,218>>, <<431,431,1,1>>, <<433,434,1,217>>, <<435,437,2,1>>,
    <<439,439,1,219>>, <<440,440,1,1>>, <<444,444,1,1>>, <<452,452,1,2>>,
    <<453,453,1,1>>, <<455,455,1,2>>, <<456,456,1,1>>, <<458,458,1,2>>,
    <<459,475,2,1>>, <<478,494,2,1>>, <<497,497,1,2>>, <<498,500,2,1>>,
    <<502,502,1,-97>>, <<503,503,1,-56>>, <<504,542,2,1>>, <<544,544,1,-130>>,
    <<546,562,2,1>>, <<570,570,1,10795>>, <<571,571,1,1>>, <<573,573,1,-163>>,
    <<574,574,1,10792>>, <<577,577,1,1>>, <<579,579,1,-195>>, <<580,580,1,69>>,
    <<581,581,1,71>>, <<582,590,2,1>>, <<880,882,2,1>>, <<886,886,1,1>>,
    <<895,895,1,116>>, <<902,902,1,38>>, <<904,906,1,37>>, <<908,908,1,64>>,
    <<910,911,1,63>>, <<913,929,1,32>>, <<931,939,1,32>>, <<975,975,1,8>>,
    <<984,1006,2,1>>, <<1012,1012,1,-60>>, <<1015,1015,1,1>>,
    <<1017,1017,1,-7>>, <<1018,1018,1,1>>, <<1021,1023,1,-130>>,
    <<1024,1039,1,80>>, <<1040,1071,1,32>>, <<1120,1152,2,1>>,
    <<1162,1214,2,1>>, <<1216,1216,1,15>>, <<1217,1229,2,1>>, <<1232,1326,2,1>>,
    <<1329,1366,1,48>>, <<4256,4293,1,7264>>, <<4295,4295,1,7264>>,
    <<4301,4301,1,7264>>, <<5024,5103,1,38864>>, <<5104,5109,1,8>>,
    <<7312,7354,1,-3008>>, <<7357,7359,1,-3008>>, <<7680,7828,2,1>>,
    <<7838,7838,1,-7615>>, <<7840,7934,2,1>>, <<7944,7951,1,-8>>,
    <<7960,7965,1,-8>>, <<7976,7983,1,-8>>, <<7992,7999,1,-8>>,
    <<8008,8013,1,-8>>, <<8025,8031,2,-8>>, <<8040,8047,1,-8>>,
    <<8072,8079,1,-8>>, <<8088,8095,1,-8>>, <<8104,8111,1,-8>>,
    <<8120,8121,1,-8>>, <<8122,8123,1,-74>>, <<8124,8124,1,-9>>,
    <<8136,8139,1,-86>>, <<8140,8140,1,-9>>, <<8152,8153,1,-8>>,
    <<8154,8155,1,-100>>, <<8168,8169,1,-8>>, <<8170,8171,1,-112>>,
    <<8172,8172,1,-7>>, <<8184,8185,1,-128>>, <<8186,8187,1,-126>>,
    <<8188,8188,1,-9>>, <<8486,8486,1,-7517>>, <<8490,8490,1,-8383>>,
    <<8491,8491,1,-8262>>, <<8498,8498,1,28>>, <<8544,8559,1,16>>,
    <<8579,8579,1,1>>, <<9398,9423,1,26>>, <<11264,11311,1,48>>,
    <<11360,11360,1,1>>, <<11362,11362,1,-10743>>, <<11363,11363,1,-3814>>,
    <<11364,11364,1,-10727>>, <<11367,11371,2,1>>, <<11373,11373,1,-10780>>,
    <<11374,11374,1,-10749>>, <<11375,11375,1,-10783>>,
    <<11376,11376,1,-10782>>, <<11378,11378,1,1>>, <<11381,11381,1,1>>,
    <<11390,11391,1,-10815>>, <<11392,11490,2,1>>, <<11499,11501,2,1>>,
    <<11506,11506,1,1>>, <<42560,42604,2,1>>, <<42624,42650,2,1>>,
    <<42786,42798,2,1>>, <<42802,42862,2,1>>, <<42873,42875,2,1>>,
    <<42877,42877,1,-35332>>, <<42878,42886,2,1>>, <<42891,42891,1,1>>,
    <<42893,42893,1,-42280>>, <<42896,42898,2,1>>, <<42902,42920,2,1>>,
    <<42922,42922,1,-42308>>, <<42923,42923,1,-42319>>,
    <<42924,42924,1,-42315>>, <<42925,42925,1,-42305>>,
    <<42926,42926,1,-42308>>, <<42928,42928,1,-42258>>,
    <<42929,42929,1,-42282>>, <<42930,42930,1,-42261>>, <<42931,42931,1,928>>,
    <<42932,42946,2,1>>, <<42948,42948,1,-48>>, <<42949,42949,1,-42307>>,
    <<42950,42950,1,-35384>>, <<42951,42953,2,1>>, <<42960,42960,1,1>>,
    <<42966,42968,2,1>>, <<42997,42997,1,1>>, <<65313,65338,1,32>>,
    <<66560,66599,1,40>>, <<66736,66771,1,40>>, <<66928,66964,2,39>>,
    <<66929,66937,2,39>>, <<66941,66953,2,39>>, <<66957,66961,2,39>>,
    <<66965,66965,1,39>>, <<68736,68786,1,64>>, <<71840,71871,1,32>>,
    <<93760,93791,1,32>>, <<125184,125217,1,34>>
    }

\* <<first, last>>: the cased code points
CasedRanges == {
    <<65,90>>, <<97,122>>, <<170,170>>, <<181,181>>, <<186,186>>, <<192,214>>,
    <<216,246>>, <<248,442>>, <<444,447>>, <<452,659>>, <<661,696>>,
    <<704,705>>, <<736,740>>, <<837,837>>, <<880,883>>, <<886,887>>,
    <<890,893>>, <<895,895>>, <<902,902>>, <<904,906>>, <<908,908>>,
    <<910,929>>, <<931,1013>>, <<1015,1153>>, <<1162,1327>>, <<1329,1366>>,
    <<1376,1416>>, <<4256,4293>>, <<4295,4295>>, <<4301,4301>>, <<4304,4346>>,
    <<4349,4351>>, <<5024,5109>>, <<5112,5117>>, <<7296,7304>>, <<7312,7354>>,
    <<7357,7359>>, <<7424,7615>>, <<7680,7957>>, <<7960,7965>>, <<7968,8005>>,
    <<8008,8013>>, <<8016,8023>>, <<8025,8025>>, <<8027,8027>>, <<8029,8029>>,
    <<8031,8061>>, <<8064,8116>>, <<8118,8124>>, <<8126,8126>>, <<8130,8132>>,
    <<8134,8140>>, <<8144,8147>>, <<8150,8155>>, <<8160,8172>>, <<8178,8180>>,
    <<8182,8188>>, <<8305,8305>>, <<8319,8319>>, <<8336,8348>>, <<8450,8450>>,
    <<8455,8455>>, <<8458,8467>>, <<8469,8469>>, <<8473,8477>>, <<8484,8484>>,
    <<8486,8486>>, <<8488,8488>>, <<8490,8493>>, <<8495,8500>>, <<8505,8505>>,
    <<8508,8511>>, <<8517,8521>>, <<8526,8526>>, <<8544,8575>>, <<8579,8580>>,
    <<9398,9449>>, <<11264,11492>>, <<11499,11502>>, <<11506,11507>>,
    <<11520,11557>>, <<11559,11559>>, <<11565,11565>>, <<42560,42605>>,
    <<42624,42653>>, <<42786,42887>>, <<42891,42894>>, <<42896,42954>>,
    <<42960,42961>>, <<42963,42963>>, <<42965,42969>>, <<42997,42998>>,
    <<43000,43002>>, <<43824,43866>>, <<43868,43880>>, <<43888,43967>>,
    <<64256,64262>>, <<64275,64279>>, <<65313,65338>>, <<65345,65370>>,
    <<66560,66639>>, <<66736,66771>>, <<66776,66811>>, <<66928,66938>>,
    <<66940,66954>>, <<66956,66962>>, <<66964,66965>>, <<66967,66977>>,
    <<66979,66993>>, <<66995,67001>>, <<67003,67004>>, <<67456,67456>>,
    <<67459,67461>>, <<67463,67504>>, <<67506,67514>>, <<68736,68786>>,
    <<68800,68850>>, <<71840,71903>>, <<93760,93823>>, <<119808,119892>>,
    <<119894,119964>>, <<119966,119967>>, <<119970,119970>>, <<119973,119974>>,
    <<119977,119980>>, <<119982,119993>>, <<119995,119995>>, <<119997,120003>>,
    <<120005,120069>>, <<120071,120074>>, <<120077,120084>>, <<120086,120092>>,
    <<120094,120121>>, <<120123,120126>>, <<120128,120132>>, <<120134,120134>>,
    <<120138,120144>>, <<120146,120485>>, <<120488,120512>>, <<120514,120538>>,
    <<120540,120570>>, <<120572,120596>>, <<120598,120628>>, <<120630,120654>>,
    <<120656,120686>>, <<120688,120712>>, <<120714,120744>>, <<120746,120770>>,
    <<120772,120779>>, <<122624,122633>>, <<122635,122654>>, <<125184,125251>>,
    <<127280,127305>>, <<127312,127337>>, <<127344,127369>>
    }

\* <<first, last>>: the case-ignorable code points
CaseIgnorableRanges == {
    <<39,39>>, <<46,46>>, <<58,58>>, <<94,94>>, <<96,96>>, <<168,168>>,
    <<173,173>>, <<175,175>>, <<180,180>>, <<183,184>>, <<688,879>>,
    <<884,885>>, <<890,890>>, <<900,901>>, <<903,903>>, <<1155,1161>>,
    <<1369,1369>>, <<1375,1375>>, <<1425,1469>>, <<1471,1471>>, <<1473,1474>>,
    <<1476,1477>>, <<1479,1479>>, <<1524,1524>>, <<1536,1541>>, <<1552,1562>>,
    <<1564,1564>>, <<1600,1600>>, <<1611,1631>>, <<1648,1648>>, <<1750,1757>>,
    <<1759,1768>>, <<1770,1773>>, <<1807,1807>>, <<1809,1809>>, <<1840,1866>>,
    <<1958,1968>>, <<2027,2037>>, <<2042,2042>>, <<2045,2045>>, <<2070,2093>>,
    <<2137,2139>>, <<2184,2184>>, <<2192,2193>>, <<2200,2207>>, <<2249,2306>>,
    <<2362,2362>>, <<2364,2364>>, <<2369,2376>>, <<2381,2381>>, <<2385,2391>>,
    <<2402,2403>>, <<2417,2417>>, <<2433,2433>>, <<2492,2492>>, <<2497,2500>>,
    <<2509,2509>>, <<2530,2531>>, <<2558,2558>>, <<2561,2562>>, <<2620,2620>>,
    <<2625,2626>>, <<2631,2632>>, <<2635,2637>>, <<2641,2641>>, <<2672,2673>>,
    <<2677,2677>>, <<2689,2690>>, <<2748,2748>>, <<2753,2757>>, <<2759,2760>>,
    <<2765,2765>>, <<2786,2787>>, <<2810,2815>>, <<2817,2817>>, <<2876,2876>>,
    <<2879,2879>>, <<2881,2884>>, <<2893,2893>>, <<2901,2902>>, <<2914,2915>>,
    <<2946,2946>>, <<3008,3008>>, <<3021,3021>>, <<3072,3072>>, <<3076,3076>>,
    <<3132,3132>>, <<3134,3136>>, <<3142,3144>>, <<3146,3149>>, <<3157,3158>>,
    <<3170,3171>>, <<3201,3201>>, <<3260,3260>>, <<3263,3263>>, <<3270,3270>>,
    <<3276,3277>>, <<3298,3299>>, <<3328,3329>>, <<3387,3388>>, <<3393,3396>>,
    <<3405,3405>>, <<3426,3427>>, <<3457,3457>>, <<3530,3530>>, <<3538,3540>>,
    <<3542,3542>>, <<3633,3633>>, <<3636,3642>>, <<3654,3662>>, <<3761,3761>>,
    <<3764,3772>>, <<3782,3782>>, <<3784,3789>>, <<3864,3865>>, <<3893,3893>>,
    <<3895,3895>>, <<3897,3897>>, <<3953,3966>>, <<3968,3972>>, <<3974,3975>>,
    <<3981,3991>>, <<3993,4028>>, <<4038,4038>>, <<4141,4144>>, <<4146,4151>>,
    <<4153,4154>>, <<4157,4158>>, <<4184,4185>>, <<4190,4192>>, <<4209,4212>>,
    <<4226,4226>>, <<4229,4230>>, <<4237,4237>>, <<4253,4253>>, <<4348,4348>>,
    <<4957,4959>>, <<5906,5908>>, <<5938,5939>>, <<5970,5971>>, <<6002,6003>>,
    <<6068,6069>>, <<6071,6077>>, <<6086,6086>>, <<6089,6099>>, <<6103,6103>>,
    <<6109,6109>>, <<6155,6159>>, <<6211,6211>>, <<6277,6278>>, <<6313,6313>>,
    <<6432,6434>>, <<6439,6440>>, <<6450,6450>>, <<6457,6459>>, <<6679,6680>>,
    <<6683,6683>>, <<6742,6742>>, <<6744,6750>>, <<6752,6752>>, <<6754,6754>>,
    <<6757,6764>>, <<6771,6780>>, <<6783,6783>>, <<6823,6823>>, <<6832,6862>>,
    <<6912,6915>>, <<6964,6964>>, <<6966,6970>>, <<6972,6972>>, <<6978,6978>>,
    <<7019,7027>>, <<7040,7041>>, <<7074,7077>>, <<7080,7081>>, <<7083,7085>>,
    <<7142,7142>>, <<7144,7145>>, <<7149,7149>>, <<7151,7153>>, <<7212,7219>>,
    <<7222,7223>>, <<7288,7293>>, <<7376,7378>>, <<7380,7392>>, <<7394,7400>>,
    <<7405,7405>>, <<7412,7412>>, <<7416,7417>>, <<7468,7530>>, <<7544,7544>>,
    <<7579,7679>>, <<8125,8125>>, <<8127,8129>>, <<8141,8143>>, <<8157,8159>>,
    <<8173,8175>>, <<8189,8190>>, <<8203,8207>>, <<8216,8217>>, <<8228,8228>>,
    <<8231,8231>>, <<8234,8238>>, <<8288,8292>>, <<8294,8303>>, <<8305,8305>>,
    <<8319,8319>>, <<8336,8348>>, <<8400,8432>>, <<11388,11389>>,
    <<11503,11505>>, <<11631,11631>>, <<11647,11647>>, <<11744,11775>>,
    <<11823,11823>>, <<12293,12293>>, <<12330,12333>>, <<12337,12341>>,
    <<12347,12347>>, <<12441,12446>>, <<12540,12542>>, <<40981,40981>>,
    <<42232,42237>>, <<42508,42508>>, <<42607,42610>>, <<42612,42621>>,
    <<42623,42623>>, <<42652,42655>>, <<42736,42737>>, <<42752,42785>>,
    <<42864,42864>>, <<42888,42890>>, <<42994,42996>>, <<43000,43001>>,
    <<43010,43010>>, <<43014,43014>>, <<43019,43019>>, <<43045,43046>>,
    <<43052,43052>>, <<43204,43205>>, <<43232,43249>>, <<43263,43263>>,
    <<43302,43309>>, <<43335,43345>>, <<43392,43394>>, <<43443,43443>>,
    <<43446,43449>>, <<43452,43453>>, <<43471,43471>>, <<43493,43494>>,
    <<43561,43566>>, <<43569,43570>>, <<43573,43574>>, <<43587,43587>>,
    <<43596,43596>>, <<43632,43632>>, <<43644,43644>>, <<43696,43696>>,
    <<43698,43700>>, <<43703,43704>>, <<43710,43711>>, <<43713,43713>>,
    <<43741,43741>>, <<43756,43757>>, <<43763,43764>>, <<43766,43766>>,
    <<43867,43871>>, <<43881,43883>>, <<44005,44005>>, <<44008,44008>>,
    <<44013,44013>>, <<64286,64286>>, <<64434,64450>>, <<65024,65039>>,
    <<65043,65043>>, <<65056,65071>>, <<65106,65106>>, <<65109,65109>>,
    <<65279,65279>>, <<65287,65287>>, <<65294,65294>>, <<65306,65306>>,
    <<65342,65342>>, <<65344,65344>>, <<65392,65392>>, <<65438,65439>>,
    <<65507,65507>>, <<65529,65531>>, <<66045,66045>>, <<66272,66272>>,
    <<66422,66426>>, <<67456,67461>>, <<67463,67504>>, <<67506,67514>>,
    <<68097,68099>>, <<68101,68102>>, <<68108,68111>>, <<68152,68154>>,
    <<68159,68159>>, <<68325,68326>>, <<68900,68903>>, <<69291,69292>>,
    <<69446,69456>>, <<69506,69509>>, <<69633,69633>>, <<69688,69702>>,
    <<69744,69744>>, <<69747,69748>>, <<69759,69761>>, <<69811,69814>>,
    <<69817,69818>>, <<69821,69821>>, <<69826,69826>>, <<69837,69837>>,
    <<69888,69890>>, <<69927,69931>>, <<69933,69940>>, <<70003,70003>>,
    <<70016,70017>>, <<70070,70078>>, <<70089,70092>>, <<70095,70095>>,
    <<70191,70193>>, <<70196,70196>>, <<70198,70199>>, <<70206,70206>>,
    <<70367,70367>>, <<70371,70378>>, <<70400,70401>>, <<70459,70460>>,
    <<70464,70464>>, <<70502,70508>>, <<70512,70516>>, <<70712,70719>>,
    <<70722,70724>>, <<70726,70726>>, <<70750,70750>>, <<70835,70840>>,
    <<70842,70842>>, <<70847,70848>>, <<70850,70851>>, <<71090,71093>>,
    <<71100,71101>>, <<71103,71104>>, <<71132,71133>>, <<71219,71226>>,
    <<71229,71229>>, <<71231,71232>>, <<71339,71339>>, <<71341,71341>>,
    <<71344,71349>>, <<71351,71351>>, <<71453,71455>>, <<71458,71461>>,
    <<71463,71467>>, <<71727,71735>>, <<71737,71738>>, <<71995,71996>>,
    <<71998,71998>>, <<72003,72003>>, <<72148,72151>>, <<72154,72155>>,
    <<72160,72160>>, <<72193,72202>>, <<72243,72248>>, <<72251,72254>>,
    <<72263,72263>>, <<72273,72278>>, <<72281,72283>>, <<72330,72342>>,
    <<72344,72345>>, <<72752,72758>>, <<72760,72765>>, <<72767,72767>>,
    <<72850,72871>>, <<72874,72880>>, <<72882,72883>>, <<72885,72886>>,
    <<73009,73014>>, <<73018,73018>>, <<73020,73021>>, <<73023,73029>>,
    <<73031,73031>>, <<73104,73105>>, <<73109,73109>>, <<73111,73111>>,
    <<73459,73460>>, <<78896,78904>>, <<92912,92916>>, <<92976,92982>>,
    <<92992,92995>>, <<94031,94031>>, <<94095,94111>>, <<94176,94177>>,
    <<94179,94180>>, <<110576,110579>>, <<110581,110587>>, <<110589,110590>>,
    <<113821,113822>>, <<113824,113827>>, <<118528,118573>>, <<118576,118598>>,
    <<119143,119145>>, <<119155,119170>>, <<119173,119179>>, <<119210,119213>>,
    <<119362,119364>>, <<121344,121398>>, <<121403,121452>>, <<121461,121461>>,
    <<121476,121476>>, <<121499,121503>>, <<121505,121519>>, <<122880,122886>>,
    <<122888,122904>>, <<122907,122913>>, <<122915,122916>>, <<122918,122922>>,
    <<123184,123197>>, <<123566,123566>>, <<123628,123631>>, <<125136,125142>>,
    <<125252,125259>>, <<127995,127999>>, <<917505,917505>>, <<917536,917631>>,
    <<917760,917999>>
    }

Cased(c) == \E r \in CasedRanges : r[1] <= c /\ c <= r[2]

CaseIgnorable(c) == \E r \in CaseIgnorableRanges : r[1] <= c /\ c <= r[2]

\* the lower-case form of one code point, a string: U+0130 gives two code
\* points, a code point without a lower-case form gives itself
lower_char(c) ==
    IF 65 <= c /\ c <= 90 THEN <<c + 32>>
    ELSE IF c < 128 THEN <<c>>
    ELSE IF c = 304 THEN <<105, 775>>
    ELSE LET hit == {r \in LowerRuns :
                        r[1] <= c /\ c <= r[2] /\ (c - r[1]) % r[3] = 0}
         IN  IF hit = {} THEN <<c>> ELSE <<c + (CHOOSE r \in hit : TRUE)[4]>>

\* the lower-case form of the capital sigma at s[i]: the final form after a
\* cased letter and not before one, case-ignorable code points skipped
handle_capital_sigma(s, i) ==
    LET before == {j \in 1..(i - 1) : ~CaseIgnorable(s[j])}
        after == {j \in (i + 1)..Len(s) : ~CaseIgnorable(s[j])}
        prev == CHOOSE j \in before : \A k \in before : k <= j
        next == CHOOSE j \in after : \A k \in after : j <= k
    IN  IF /\ before # {}
           /\ Cased(s[prev])
           /\ (after = {} \/ ~Cased(s[next]))
        THEN 962
        ELSE 963

RECURSIVE lower_from(_, _)
lower_from(s, i) ==
    IF i > Len(s) THEN <<>>
    ELSE (IF s[i] = 931 THEN <<handle_capital_sigma(s, i)>> ELSE lower_char(s[i]))
         \o lower_from(s, i + 1)

\* str.lower()
str_lower(s) == lower_from(s, 1)

RECURSIVE str_lstrip(_)
str_lstrip(s) ==
    IF Len(s) > 0 /\ s[1] \in Whitespace THEN str_lstrip(Tail(s)) ELSE s

RECURSIVE str_rstrip(_)
str_rstrip(s) ==
    IF Len(s) > 0 /\ s[Len(s)] \in Whitespace
    THEN str_rstrip(SubSeq(s, 1, Len(s) - 1))
    ELSE s

\* str.strip()
str_strip(s) == str_rstrip(str_lstrip(s))

\* sub in s
str_contains(s, sub) ==
    \E i \in 0..(Len(s) - Len(sub)) : SubSeq(s, i + 1, i + Len(sub)) = sub

\* sep.join(frags)
RECURSIVE str_join(_, _)
str_join(frags, sep) ==
    IF Len(frags) = 0 THEN <<>>
    ELSE IF Len(frags) = 1 THEN frags[1]
    ELSE frags[1] \o sep \o str_join(Tail(frags), sep)

\* position (1-based) of list[i] for a Python index i on a list of length n;
\* 0 when list[i] raises IndexError
PyIndex(i, n) ==
    IF 0 <= i /\ i < n THEN i + 1
    ELSE IF i < 0 /\ -n <= i THEN n + i + 1
    ELSE 0

MaxOf(a, b) == IF a >= b THEN a ELSE b

(***************************************************************************)
(* build_block_index                                                       *)
(***************************************************************************)
RECURSIVE rel_ids(_, _)
rel_ids(rels, types) ==
    IF Len(rels) = 0 THEN <<>>
    ELSE (IF Get(rels[1], "Type", "") \in types
          THEN Get(rels[1], "Ids", <<>>)
          ELSE <<>>) \o rel_ids(Tail(rels), types)

\* block.get("Id"): the key of a block in both dicts, None for a block
\* without an Id
block_id(block) == IF "Id" \in DOMAIN block THEN Some(block.Id) ELSE None

\* the two dicts built by the loop: id_to_block keeps the last block of each
\* key; block_children is written only for a block with a non-empty child
\* list and keeps the last list written for each key
build_block_index(bs) ==
    LET kids(i) == rel_ids(Get(bs[i], "Relationships", <<>>), {"CHILD", "MERGED_CELL"})
        parents == {i \in 1..Len(bs) : kids(i) # <<>>}
        last(S, k) == LET at == {i \in S : block_id(bs[i]) = k}
                      IN  CHOOSE i \in at : \A j \in at : j <= i
    IN  [id_to_block |->
            [k \in {block_id(bs[i]) : i \in 1..Len(bs)} |-> bs[last(1..Len(bs), k)]],
         block_children |->
            [k \in {block_id(bs[i]) : i \in parents} |-> kids(last(parents, k))]]

\* id_to_block.get(child_id) is a non-empty block
Indexed(idx, child_id) ==
    Some(child_id) \in DOMAIN idx /\ DOMAIN idx[Some(child_id)] # {}

(***************************************************************************)
(* extract_text_from_block                                                 *)
(***************************************************************************)
RECURSIVE word_tokens(_, _)
word_tokens(ids, idx) ==
    IF Len(ids) = 0 THEN <<>>
    ELSE LET child_id == ids[1]
             rest == word_tokens(Tail(ids), idx)
         IN  IF ~Indexed(idx, child_id) THEN rest
             ELSE LET child == idx[Some(child_id)]
                      token == Get(child, "Text", <<>>)
                  IN  IF Get(child, "BlockType", "") = "WORD" /\ Len(token) > 0
                      THEN <<token>> \o rest
                      ELSE rest

\* faulty variant: MERGED_CELL targets are walked like CHILD targets
RECURSIVE text_fragments_merged(_, _)
text_fragments_merged(rels, idx) ==
    IF Len(rels) = 0 THEN <<>>
    ELSE (IF Get(rels[1], "Type", "") \notin {"CHILD", "MERGED_CELL"}
          THEN <<>>
          ELSE word_tokens(Get(rels[1], "Ids", <<>>), idx))
         \o text_fragments_merged(Tail(rels), idx)

RECURSIVE text_fragments(_, _)
text_fragments(rels, idx) ==
    IF Len(rels) = 0 THEN <<>>
    ELSE (IF Get(rels[1], "Type", "") # "CHILD"
          THEN <<>>
          ELSE word_tokens(Get(rels[1], "Ids", <<>>), idx))
         \o text_fragments(Tail(rels), idx)

extract_text_from_block(block, idx) ==
    IF Get(block, "BlockType", "") = "WORD"
    THEN Get(block, "Text", <<>>)
    ELSE str_strip(str_join(text_fragments(Get(block, "Relationships", <<>>), idx),
                            <<32>>))  \* " "

(***************************************************************************)
(* page_contains_phrase, get_tables_on_page                                *)
(***************************************************************************)
OnPage(block, page_number) == "Page" \in DOMAIN block /\ block.Page = page_number

RECURSIVE scan_page(_, _, _, _)
scan_page(bs, idx, page_number, phrase_lower) ==
    IF Len(bs) = 0 THEN FALSE
    ELSE IF /\ OnPage(bs[1], page_number)
            /\ Get(bs[1], "BlockType", "") \in {"LINE", "CELL", "TABLE"}
            /\ str_contains(str_lower(extract_text_from_block(bs[1], idx)), phrase_lower)
         THEN TRUE
         ELSE scan_page(Tail(bs), idx, page_number, phrase_lower)

page_contains_phrase(bs, idx, page_number, phrase) ==
    scan_page(bs, idx, page_number, str_lower(phrase))

IsTableOn(block, page_number) ==
    Get(block, "BlockType", "") = "TABLE" /\ OnPage(block, page_number)

get_tables_on_page(bs, page_number) ==
    SelectSeq(bs, LAMBDA b : IsTableOn(b, page_number))

(***************************************************************************)
(* build_table_matrix: [raised |-> TRUE] stands for the IndexError that a  *)
(* subscript of the grid raises.                                           *)
(***************************************************************************)
RECURSIVE cell_children(_, _)
cell_children(ids, idx) ==
    IF Len(ids) = 0 THEN <<>>
    ELSE (IF /\ Indexed(idx, ids[1])
             /\ Get(idx[Some(ids[1])], "BlockType", "") = "CELL"
          THEN <<idx[Some(ids[1])]>>
          ELSE <<>>) \o cell_children(Tail(ids), idx)

table_cells(table_block, idx) ==
    cell_children(rel_ids(Get(table_block, "Relationships", <<>>), {"CHILD"}), idx)

RECURSIVE max_index(_, _)
max_index(cells, key) ==
    IF Len(cells) = 0 THEN 0
    ELSE MaxOf(max_index(SubSeq(cells, 1, Len(cells) - 1), key),
               Get(cells[Len(cells)], key, 0))

\* [x for _ in range(n)]
RECURSIVE repeat(_, _)
repeat(x, n) == IF n <= 0 THEN <<>> ELSE <<x>> \o repeat(x, n - 1)

empty_grid(max_row, max_col) == repeat(repeat(<<>>, max_col), max_row)

\* one iteration of the loop over cells
place_cell(acc, cell, idx) ==
    IF acc.raised THEN acc
    ELSE LET m == acc.matrix
             r == Get(cell, "RowIndex", 1) - 1
             c == Get(cell, "ColumnIndex", 1) - 1
             text == extract_text_from_block(cell, idx)
             ri == PyIndex(r, Len(m))
         IN  IF ~(r < Len(m)) THEN acc
             ELSE IF ri = 0 THEN [raised |-> TRUE, matrix |-> m]
             ELSE IF ~(c < Len(m[ri])) THEN acc
             ELSE IF Len(text) = 0 THEN acc
             ELSE LET ci == PyIndex(c, Len(m[ri]))
                  IN  IF ci = 0 THEN [raised |-> TRUE, matrix |-> m]
                      ELSE [raised |-> FALSE,
                            matrix |-> [m EXCEPT ![ri][ci] = text]]

RECURSIVE place_cells(_, _, _)
place_cells(acc, cells, idx) ==
    IF Len(cells) = 0 THEN acc
    ELSE place_cells(place_cell(acc, cells[1], idx), Tail(cells), idx)

build_table_matrix(table_block, idx) ==
    LET cells == table_cells(table_block, idx)
        max_row == max_index(cells, "RowIndex")
        max_col == max_index(cells, "ColumnIndex")
    IN  place_cells([raised |-> FALSE, matrix |-> empty_grid(max_row, max_col)],
                    cells, idx)

(***************************************************************************)
(* normalize, find_column_index_by_header, find_row_index_by_label         *)
(***************************************************************************)
normalize(s) == str_lower(str_strip(s))

Matches(cell_text, target) ==
    normalize(cell_text) = target \/ str_contains(normalize(cell_text), target)

RECURSIVE first_in_row(_, _, _)
first_in_row(row, target, idx0) ==
    IF Len(row) = 0 THEN None
    ELSE IF Matches(row[1], target) THEN Some(idx0)
    ELSE first_in_row(Tail(row), target, idx0 + 1)

RECURSIVE first_in_rows(_, _)
first_in_rows(rows, target) ==
    IF Len(rows) = 0 THEN None
    ELSE LET hit == first_in_row(rows[1], target, 0)
         IN  IF hit # None THEN hit ELSE first_in_rows(Tail(rows), target)

HeaderRows == 2

\* faulty variant: every row is searched, not only the header rows
find_column_all_rows(table, header_query) ==
    first_in_rows(table, str_lower(str_strip(header_query)))

find_column_index_by_header(table, header_query) ==
    first_in_rows(SubSeq(table, 1, IF Len(table) < HeaderRows THEN Len(table) ELSE HeaderRows),
                  normalize(header_query))

RECURSIVE first_row_from(_, _, _)
first_row_from(rows, target, idx0) ==
    IF Len(rows) = 0 THEN None
    ELSE IF Len(rows[1]) > 0 /\ Matches(rows[1][1], target) THEN Some(idx0)
    ELSE first_row_from(Tail(rows), target, idx0 + 1)

find_row_index_by_label(table, label) ==
    first_row_from(table, normalize(label), 0)

(***************************************************************************)
(* String constants of the source.                                         *)
(***************************************************************************)
\* "STATEMENT OF PROFIT OR LOSS"
PHRASE ==
    <<83, 84, 65, 84, 69, 77, 69, 78, 84, 32, 79, 70, 32, 80,
      82, 79, 70, 73, 84, 32, 79, 82, 32, 76, 79, 83, 83>>
REVENUE_LABEL == <<82, 101, 118, 101, 110, 117, 101>>  \* "Revenue"
NO_BLOCKS == "No blocks returned"
NO_PAGE == "Could not find page containing 'STATEMENT OF PROFIT OR LOSS'"
NO_TABLES == "No tables found on target page"
NOT_FOUND == "Revenue not found in tables on target page"

\* faulty variant: the column count is reported as the row count and conversely
FormatDebug_swapped(page, rows, cols) ==
    "page=" \o ToString(page) \o ", table_extracted_rows=" \o ToString(cols)
    \o " cols=" \o ToString(rows)

FormatDebug(page, rows, cols) ==
    "page=" \o ToString(page) \o ", table_extracted_rows=" \o ToString(rows)
    \o " cols=" \o ToString(cols)

(***************************************************************************)
(* Input documents: block lists as the analysis service returns them.      *)
(***************************************************************************)
T_2023 == <<50, 48, 50, 51>>  \* "2023"
T_2024 == <<50, 48, 50, 52>>  \* "2024"
T_100 == <<49, 48, 48>>  \* "100"
T_120 == <<49, 50, 48>>  \* "120"
T_200 == <<50, 48, 48>>  \* "200"
T_7 == <<55>>  \* "7"
T_8 == <<56>>  \* "8"
T_9 == <<57>>  \* "9"
T_Sales == <<83, 97, 108, 101, 115>>  \* "Sales"
T_Total == <<84, 111, 116, 97, 108>>  \* "Total"
T_REVENUEc == <<82, 69, 86, 69, 78, 85, 69, 44>>  \* "REVENUE,"
T_net == <<110, 101, 116>>  \* "net"
T_Item == <<73, 116, 101, 109>>  \* "Item"
T_Year == <<89, 101, 97, 114>>  \* "Year"
T_Statement == <<83, 116, 97, 116, 101, 109, 101, 110, 116>>  \* "Statement"
T_of == <<111, 102>>  \* "of"
T_Profit == <<80, 114, 111, 102, 105, 116>>  \* "Profit"
T_or == <<111, 114>>  \* "or"
T_Loss == <<76, 111, 115, 115>>  \* "Loss"
T_deep == <<100, 101, 101, 112>>  \* "deep"
T_ZZ == <<90, 90>>  \* "ZZ"
T_space == <<32>>  \* " "
T_blank == <<160, 13, 8195>>  \* no-break space, carriage return, em space
T_2024cr == <<50, 48, 50, 52, 13>>  \* "2024" and a carriage return
T_vtRevenue == <<11, 82, 101, 118, 101, 110, 117, 101>>  \* vertical tab and "Revenue"
T_nb120 == <<160, 49, 50, 48, 8195>>  \* "120" between a no-break and an em space
T_nb2024 == <<160, 50, 48, 50, 52, 12>>  \* "2024" between a no-break space and a form feed

MaxTables == 2

RECURSIVE Flatten(_)
Flatten(ss) == IF Len(ss) = 0 THEN <<>> ELSE ss[1] \o Flatten(Tail(ss))

\* a cell to generate: indices (either may be absent), its words, and whether
\* the cell carries children that must contribute no text
CellAt(r, c, words) == [RowIndex |-> r, ColumnIndex |-> c, words |-> words, noise |-> FALSE]
NoisyAt(r, c, words) == [RowIndex |-> r, ColumnIndex |-> c, words |-> words, noise |-> TRUE]
CellNoIndex(words) == [words |-> words, noise |-> FALSE]
CellNoColumn(r, words) == [RowIndex |-> r, words |-> words, noise |-> FALSE]

StatementTable(label, a, b, noisy) ==
    IF noisy
    THEN << NoisyAt(1, 1, <<>>), NoisyAt(1, 2, <<T_2023>>), NoisyAt(1, 3, <<T_2024>>),
            NoisyAt(2, 1, <<label>>), NoisyAt(2, 2, <<a>>), NoisyAt(2, 3, <<b>>) >>
    ELSE << CellAt(1, 1, <<>>), CellAt(1, 2, <<T_2023>>), CellAt(1, 3, <<T_2024>>),
            CellAt(2, 1, <<label>>), CellAt(2, 2, <<a>>), CellAt(2, 3, <<b>>) >>

TableKinds == <<
    \* 1: the statement table of the end-to-end scenario
    StatementTable(REVENUE_LABEL, T_100, T_120, FALSE),
    \* 2: the same with the label absent
    StatementTable(T_Sales, T_100, T_120, FALSE),
    \* 3: the Revenue cell under the resolved column is blank; every cell has
    \*    merged cells, selection elements, dangling child ids, empty and
    \*    blank words and a nested line among its children
    << NoisyAt(1, 2, <<T_2024>>), NoisyAt(2, 1, <<REVENUE_LABEL>>), NoisyAt(2, 2, <<>>) >>,
    \* 4: no CELL children
    << >>,
    \* 5: a single column
    << CellAt(1, 1, <<REVENUE_LABEL>>) >>,
    \* 6: one cell with RowIndex 0
    << CellAt(0, 1, <<T_7>>) >>,
    \* 7: RowIndex 0 and ColumnIndex 0 beside well-formed cells
    << CellAt(2, 2, <<T_8>>), CellAt(1, 1, <<REVENUE_LABEL>>),
       CellAt(0, 2, <<T_9>>), CellAt(1, 0, <<T_7>>) >>,
    \* 8: the year appears in the third row only
    << CellAt(1, 1, <<T_Item>>), CellAt(1, 2, <<T_7>>), CellAt(1, 3, <<T_8>>),
       CellAt(2, 1, <<REVENUE_LABEL>>), CellAt(2, 2, <<T_100>>), CellAt(2, 3, <<T_120>>),
       CellAt(3, 1, <<T_Year>>), CellAt(3, 2, <<T_2023>>), CellAt(3, 3, <<T_2024>>) >>,
    \* 9: the year in both header rows, multi-word upper-case label
    << CellAt(1, 3, <<T_2024>>),
       CellAt(2, 1, <<T_Item>>), CellAt(2, 2, <<T_2024>>), CellAt(2, 3, <<T_2023>>),
       CellAt(3, 1, <<T_Total, T_REVENUEc, T_net>>), CellAt(3, 2, <<T_100>>),
       CellAt(3, 3, <<T_120>>) >>,
    \* 10: a cell without indices beside an indexed one
    << CellNoIndex(<<REVENUE_LABEL>>), CellAt(1, 2, <<T_200>>) >>,
    \* 11: a cell without a column index: one row of no columns
    << CellNoColumn(1, <<REVENUE_LABEL>>) >>,
    \* 12: words wrapped in whitespace other than the space, a blank word
    << CellAt(1, 1, <<T_blank>>), CellAt(1, 2, <<T_2023>>), CellAt(1, 3, <<T_2024cr>>),
       CellAt(2, 1, <<T_vtRevenue>>), CellAt(2, 2, <<T_blank, T_100>>),
       CellAt(2, 3, <<T_nb120, T_blank>>) >>
    >>

NumKinds == Len(TableKinds)

WordBlock(id, text, page) ==
    [Id |-> id, BlockType |-> "WORD", Text |-> text, Page |-> page]

WordBlocks(prefix, words, page) ==
    [j \in 1..Len(words) |-> WordBlock(prefix \o "w" \o ToString(j), words[j], page)]

WordIds(prefix, words) == [j \in 1..Len(words) |-> prefix \o "w" \o ToString(j)]

IndexFields(spec) ==
    [k \in DOMAIN spec \cap {"RowIndex", "ColumnIndex"} |-> spec[k]]

CellBlocks(cid, spec, page) ==
    IF spec.noise
    THEN << IndexFields(spec) @@
            [Id |-> cid, BlockType |-> "CELL", Page |-> page,
             Relationships |->
                << [Type |-> "MERGED_CELL", Ids |-> <<cid \o "m">>],
                   [Type |-> "CHILD",
                    Ids |-> <<cid \o "x", cid \o "s">> \o WordIds(cid, spec.words)
                            \o <<cid \o "e", cid \o "l", cid \o "b">>] >>],
            WordBlock(cid \o "m", T_ZZ, page),
            [Id |-> cid \o "s", BlockType |-> "SELECTION_ELEMENT", Page |-> page],
            WordBlock(cid \o "e", <<>>, page),
            [Id |-> cid \o "l", BlockType |-> "LINE", Page |-> page,
             Relationships |-> << [Type |-> "CHILD", Ids |-> <<cid \o "d">>] >>],
            WordBlock(cid \o "d", T_deep, page),
            WordBlock(cid \o "b", T_space, page) >>
         \o WordBlocks(cid, spec.words, page)
    ELSE << IndexFields(spec) @@
            [Id |-> cid, BlockType |-> "CELL", Page |-> page,
             Relationships |-> << [Type |-> "CHILD", Ids |-> WordIds(cid, spec.words)] >>] >>
         \o WordBlocks(cid, spec.words, page)

TableBlocks(tid, specs, page) ==
    LET cid(k) == tid \o "c" \o ToString(k)
    IN  << [Id |-> tid, BlockType |-> "TABLE", Page |-> page,
            Relationships |->
               << [Type |-> "CHILD",
                   Ids |-> <<tid \o "w1">> \o [k \in 1..Len(specs) |-> cid(k)]] >>],
           WordBlock(tid \o "w1", REVENUE_LABEL, page) >>
        \o Flatten([k \in 1..Len(specs) |-> CellBlocks(cid(k), specs[k], page)])

TitleWords == <<T_Statement, T_of, T_Profit, T_or, T_Loss>>

\* the statement title as a LINE of five words; without a Page attribute
\* when paged is FALSE, without an Id when named is FALSE
TitleBlocks(lid, page, paged, named) ==
    << (IF paged THEN [Page |-> page] ELSE <<>>) @@
       (IF named THEN [Id |-> lid] ELSE <<>>) @@
       [BlockType |-> "LINE",
        Relationships |-> << [Type |-> "CHILD", Ids |-> WordIds(lid, TitleWords)] >>] >>
    \o WordBlocks(lid, TitleWords, page)

\* the blocks of table kind at position k of page 1
SlotTables ==
    [k \in 1..MaxTables |->
        [kind \in 1..NumKinds |->
            TableBlocks("p1t" \o ToString(k), TableKinds[kind], 1)]]

SecondPage ==
    TitleBlocks("q", 2, TRUE, TRUE)
    \o TableBlocks("p2t1", StatementTable(REVENUE_LABEL, T_200, T_120, FALSE), 2)

\* title: 0 no title, 1 a title on page 1, 2 a title line with no Page,
\*        3 a title line with no Id
\* kinds: the tables of page 1, in order
\* second: 0 nothing on page 2, 1 a title and a statement table on page 2
Doc(title, kinds, second) ==
    (IF second = 1 THEN SecondPage ELSE <<>>)
    \o (IF title = 0 THEN <<>> ELSE TitleBlocks("l", 1, title # 2, title # 3))
    \o Flatten([k \in 1..Len(kinds) |-> SlotTables[k][kinds[k]]])

TableSeqs == UNION {[1..n -> 1..NumKinds] : n \in 0..MaxTables}
ShortSeqs == {<<>>} \cup {<<k>> : k \in 1..NumKinds}

Years == {None, Some(<<>>), Some(T_2024), Some(T_nb2024)}

(***************************************************************************)
(* analyze_pdf_and_extract, one action per stage.                          *)
(***************************************************************************)
RECURSIVE SortedSeq(_)
SortedSeq(S) ==
    IF S = {} THEN <<>>
    ELSE LET m == CHOOSE x \in S : \A y \in S : x <= y
         IN  <<m>> \o SortedSeq(S \ {m})

\* faulty variant: the pages in descending order
RECURSIVE Reversed(_)
Reversed(q) == IF Len(q) = 0 THEN <<>> ELSE Reversed(Tail(q)) \o <<q[1]>>

sorted_pages_desc(bs) ==
    Reversed(SortedSeq({bs[i].Page : i \in {j \in 1..Len(bs) : "Page" \in DOMAIN bs[j]}}))

\* sorted({b.get("Page") for b in blocks if b.get("Page") is not None})
sorted_pages(bs) ==
    SortedSeq({bs[i].Page : i \in {j \in 1..Len(bs) : "Page" \in DOMAIN bs[j]}})

Truthy(opt) == opt # None /\ Len(opt[1]) > 0

\* faulty variant: the fallback applies only when no year was supplied
resolve_column_unsupplied(m, year) ==
    IF Truthy(year)
    THEN find_column_index_by_header(m, year[1])
    ELSE IF Len(m[1]) >= 2 THEN Some(1) ELSE None

\* the column for the target year, or the second column
resolve_column(m, year) ==
    LET found == IF Truthy(year) THEN find_column_index_by_header(m, year[1]) ELSE None
    IN  IF found = None /\ Len(m[1]) >= 2 THEN Some(1) ELSE found

Return(v, d) ==
    /\ value' = v
    /\ debug' = Some(d)
    /\ pc' = "RETURNED"

IndexBlocks ==
    /\ pc = "START"
    /\ IF Len(blocks) = 0
       THEN /\ Return(None, NO_BLOCKS)
            /\ UNCHANGED <<id_to_block, pages>>
       ELSE /\ id_to_block' = build_block_index(blocks).id_to_block
            /\ pages' = sorted_pages(blocks)
            /\ pc' = "LOCATING_PAGE"
            /\ UNCHANGED <<value, debug>>
    /\ UNCHANGED <<blocks, target_year, page_i, target_page, tables, table_i, matrix,
                   year_col_idx, revenue_row_idx, examined, built>>
    /\ UNCHANGED <<textVars, matchVars>>

ExaminePage ==
    /\ pc = "LOCATING_PAGE"
    /\ IF page_i > Len(pages)
       THEN /\ Return(None, NO_PAGE)
            /\ UNCHANGED <<page_i, target_page, examined>>
       ELSE /\ examined' = Append(examined, pages[page_i])
            /\ UNCHANGED <<value, debug>>
            /\ IF page_contains_phrase(blocks, id_to_block, pages[page_i], PHRASE)
               THEN /\ target_page' = Some(pages[page_i])
                    /\ pc' = "LOCATING_TABLES"
                    /\ UNCHANGED page_i
               ELSE /\ page_i' = page_i + 1
                    /\ UNCHANGED <<pc, target_page>>
    /\ UNCHANGED <<blocks, target_year, id_to_block, pages, tables, table_i, matrix,
                   year_col_idx, revenue_row_idx, built>>
    /\ UNCHANGED <<textVars, matchVars>>

LocateTables ==
    /\ pc = "LOCATING_TABLES"
    /\ tables' = get_tables_on_page(blocks, target_page[1])
    /\ IF Len(tables') = 0
       THEN Return(None, NO_TABLES)
       ELSE /\ pc' = "BUILDING_MATRIX"
            /\ UNCHANGED <<value, debug>>
    /\ UNCHANGED <<blocks, target_year, id_to_block, pages, page_i, target_page, table_i,
                   matrix, year_col_idx, revenue_row_idx, examined, built>>
    /\ UNCHANGED <<textVars, matchVars>>

BuildMatrix ==
    /\ pc = "BUILDING_MATRIX"
    /\ built' = Append(built, table_i)
    /\ LET res == build_table_matrix(tables[table_i], id_to_block)
       IN  IF res.raised
           THEN /\ pc' = "RAISED"
                /\ UNCHANGED matrix
           ELSE /\ pc' = "RESOLVING_CELL"
                /\ matrix' = res.matrix
    /\ UNCHANGED <<blocks, target_year, id_to_block, pages, page_i, target_page, tables,
                   table_i, year_col_idx, revenue_row_idx, value, debug, examined>>
    /\ UNCHANGED <<textVars, matchVars>>

ResolveCell ==
    /\ pc = "RESOLVING_CELL"
    /\ IF Len(matrix) = 0 \/ Len(matrix[1]) = 0
       THEN /\ pc' = "NEXT_TABLE"
            /\ UNCHANGED <<year_col_idx, revenue_row_idx, value, debug>>
       ELSE LET col == resolve_column(matrix, target_year)
                row == find_row_index_by_label(matrix, REVENUE_LABEL)
            IN  /\ year_col_idx' = col
                /\ revenue_row_idx' = row
                /\ IF /\ row # None
                      /\ col # None
                      /\ col[1] < Len(matrix[row[1] + 1])
                      /\ Len(str_strip(matrix[row[1] + 1][col[1] + 1])) > 0
                   THEN Return(Some(str_strip(matrix[row[1] + 1][col[1] + 1])),
                               FormatDebug(target_page[1], Len(matrix), Len(matrix[1])))
                   ELSE /\ pc' = "NEXT_TABLE"
                        /\ UNCHANGED <<value, debug>>
    /\ UNCHANGED <<blocks, target_year, id_to_block, pages, page_i, target_page, tables,
                   table_i, matrix, examined, built>>
    /\ UNCHANGED <<textVars, matchVars>>

\* faulty variant: the loop over tables ends at the first table that yields no value
NextTable_giveup ==
    /\ pc = "NEXT_TABLE"
    /\ value' = None
    /\ debug' = Some(NOT_FOUND)
    /\ pc' = "RETURNED"
    /\ UNCHANGED <<blocks, target_year, id_to_block, pages, page_i, target_page, tables,
                   table_i, matrix, year_col_idx, revenue_row_idx, examined, built>>
    /\ UNCHANGED <<u_block, u_text, m_table, m_query, v_table, v_query,
                   m_col, v_col, m_row, v_row>>

NextTable ==
    /\ pc = "NEXT_TABLE"
    /\ IF table_i < Len(tables)
       THEN /\ table_i' = table_i + 1
            /\ pc' = "BUILDING_MATRIX"
            /\ UNCHANGED <<value, debug>>
       ELSE /\ Return(None, NOT_FOUND)
            /\ UNCHANGED table_i
    /\ UNCHANGED <<blocks, target_year, id_to_block, pages, page_i, target_page, tables,
                   matrix, year_col_idx, revenue_row_idx, examined, built>>
    /\ UNCHANGED <<textVars, matchVars>>

UnitIdle ==
    /\ u_block = None /\ u_text = None
    /\ m_table = <<>> /\ m_query = <<>> /\ v_table = <<>> /\ v_query = <<>>
    /\ m_col = None /\ v_col = None /\ m_row = None /\ v_row = None

OrchStart ==
    /\ pc = "START"
    /\ id_to_block = <<>>
    /\ pages = <<>>
    /\ page_i = 1
    /\ target_page = None
    /\ tables = <<>>
    /\ table_i = 1
    /\ matrix = <<>>
    /\ year_col_idx = None
    /\ revenue_row_idx = None
    /\ value = None
    /\ debug = None
    /\ examined = <<>>
    /\ built = <<>>

Init ==
    /\ \/ blocks = <<>>
       \/ \E kinds \in TableSeqs : blocks = Doc(1, kinds, 0)
       \/ \E title \in 0..3, kinds \in ShortSeqs, second \in 0..1 :
              blocks = Doc(title, kinds, second)
    /\ target_year \in Years
    /\ OrchStart
    /\ UnitIdle

Next ==
    \/ IndexBlocks
    \/ ExaminePage
    \/ LocateTables
    \/ BuildMatrix
    \/ ResolveCell
    \/ NextTable

Spec == Init /\ [][Next]_vars

(***************************************************************************)
(* Unit runs of extract_text_from_block: any block of a document.          *)
(***************************************************************************)
InitText ==
    /\ \E title \in 1..3, kinds \in ShortSeqs : blocks = Doc(title, kinds, 0)
    /\ target_year = None
    /\ pc = "UNIT"
    /\ id_to_block = build_block_index(blocks).id_to_block
    /\ pages = <<>>
    /\ page_i = 1
    /\ target_page = None
    /\ tables = <<>>
    /\ table_i = 1
    /\ matrix = <<>>
    /\ year_col_idx = None
    /\ revenue_row_idx = None
    /\ value = None
    /\ debug = None
    /\ examined = <<>>
    /\ built = <<>>
    /\ UnitIdle

ExtractText ==
    /\ pc = "UNIT"
    /\ u_block = None
    /\ \E i \in 1..Len(blocks) :
          /\ u_block' = Some(blocks[i])
          /\ u_text' = Some(extract_text_from_block(blocks[i], id_to_block))
    /\ UNCHANGED <<orchVars, matchVars>>

NextText == ExtractText

SpecText == InitText /\ [][NextText]_vars

(***************************************************************************)
(* Unit runs of the two lookups: a table and a query, and the same table   *)
(* and query in another letter case or with surrounding whitespace.        *)
(***************************************************************************)
MaxPad == 1

T_FY2024 == <<70, 89, 50, 48, 50, 52>>  \* "FY2024"
T_RevenueNet == <<82, 101, 118, 101, 110, 117, 101, 44, 32, 110, 101, 116>>  \* "Revenue, net"
T_revenue == <<114, 101, 118, 101, 110, 117, 101>>  \* "revenue"
T_Re_venue == <<82, 101, 32, 118, 101, 110, 117, 101>>  \* "Re venue"
T_Aussen == <<65, 117, 223, 101, 110>>  \* "Außen"

MatchTables == {
    << >>,
    << <<T_Item, T_2024>>, <<T_RevenueNet, T_7>> >>,
    << <<T_Item, T_2023, T_FY2024>>, <<T_2024, T_8, T_9>>, <<REVENUE_LABEL, T_7, T_8>> >>,
    << <<T_Item, T_7>>, <<T_Sales, T_8>>, <<T_revenue, T_2024>> >>,
    << << >>, <<T_Re_venue>>, <<T_RevenueNet>> >>,
    << <<T_Item, T_2024>>, <<T_Aussen, T_7>> >>
    }

MatchQueries == {<<>>, T_2024, T_revenue, T_FY2024, REVENUE_LABEL, T_Aussen}

\* the upper-case form of a code point of the texts above: a..z, and the
\* sharp s, whose upper-case form is "SS"
UpperOf(c) ==
    IF 97 <= c /\ c <= 122 THEN <<c - 32>>
    ELSE IF c = 223 THEN <<83, 83>>
    ELSE <<c>>

RECURSIVE Upper(_)
Upper(t) == IF Len(t) = 0 THEN <<>> ELSE UpperOf(t[1]) \o Upper(Tail(t))

\* space, carriage return, no-break space, tab, line feed, vertical tab
PadChars == <<32, 13, 160, 9, 10, 11>>
Pad(n) == [i \in 1..n |-> PadChars[((i - 1) % Len(PadChars)) + 1]]

\* the text in another letter case (0 as is, 1 upper, 2 lower) between
\* left and right whitespace characters
Variant(t, case, left, right) ==
    Pad(left)
    \o (IF case = 1 THEN Upper(t) ELSE IF case = 2 THEN str_lower(t) ELSE t)
    \o Pad(right)

VariantTable(tb, case, left, right) ==
    [r \in 1..Len(tb) |-> [c \in 1..Len(tb[r]) |-> Variant(tb[r][c], case, left, right)]]

InitMatch ==
    /\ blocks = <<>>
    /\ target_year = None
    /\ pc = "UNIT"
    /\ id_to_block = <<>>
    /\ pages = <<>>
    /\ page_i = 1
    /\ target_page = None
    /\ tables = <<>>
    /\ table_i = 1
    /\ matrix = <<>>
    /\ year_col_idx = None
    /\ revenue_row_idx = None
    /\ value = None
    /\ debug = None
    /\ examined = <<>>
    /\ built = <<>>
    /\ u_block = None
    /\ u_text = None
    /\ m_table \in MatchTables
    /\ m_query \in MatchQueries
    /\ \E case \in 0..2, left \in 0..MaxPad, right \in 0..MaxPad :
          v_table = VariantTable(m_table, case, left, right)
    /\ \E case \in 0..2, left \in 0..MaxPad, right \in 0..MaxPad :
          v_query = Variant(m_query, case, left, right)
    /\ m_col = None
    /\ v_col = None
    /\ m_row = None
    /\ v_row = None

FindColumn ==
    /\ pc = "UNIT"
    /\ m_col = None
    /\ m_col' = Some(find_column_index_by_header(m_table, m_query))
    /\ v_col' = Some(find_column_index_by_header(v_table, v_query))
    /\ UNCHANGED <<orchVars, textVars, m_table, m_query, v_table, v_query, m_row, v_row>>

FindRow ==
    /\ pc = "UNIT"
    /\ m_row = None
    /\ m_row' = Some(find_row_index_by_label(m_table, m_query))
    /\ v_row' = Some(find_row_index_by_label(v_table, v_query))
    /\ UNCHANGED <<orchVars, textVars, m_table, m_query, v_table, v_query, m_col, v_col>>

NextMatch == FindColumn \/ FindRow

SpecMatch == InitMatch /\ [][NextMatch]_vars

(***************************************************************************)
(* Vocabulary of the claims.                                               *)
(***************************************************************************)
ScenarioMatrix == << << <<>>, T_2023, T_2024 >>, << REVENUE_LABEL, T_100, T_120 >> >>
ScenarioDebug == "page=1, table_extracted_rows=2 cols=3"

Terminated == pc \in {"RETURNED", "RAISED"}

\* s without its leading and trailing whitespace
Trimmed(s) ==
    LET keep == {i \in 1..Len(s) : s[i] \notin Whitespace}
    IN  IF keep = {} THEN <<>>
        ELSE SubSeq(s, CHOOSE i \in keep : \A j \in keep : i <= j,
                       CHOOSE i \in keep : \A j \in keep : j <= i)

\* trimmed and lowercased
Normal(s) == str_lower(Trimmed(s))

\* a occurs in s
Occurs(s, a) ==
    \E i \in 0..(Len(s) - Len(a)) : \A k \in 1..Len(a) : s[i + k] = a[k]

\* the index of the run's blocks
IndexNow == IF pc = "START" THEN build_block_index(blocks).id_to_block ELSE id_to_block

NormalPhrase == Normal(PHRASE)

\* the cell text equals or contains the query, both normalized
CellMatches(t, q) == Occurs(Normal(t), Normal(q))

PagesPresent == {blocks[i].Page : i \in {j \in 1..Len(blocks) : "Page" \in DOMAIN blocks[j]}}

\* page p has a LINE, CELL or TABLE whose text contains the phrase
PageHasPhrase(p) ==
    LET idx == IndexNow
    IN  \E i \in 1..Len(blocks) :
            /\ "Page" \in DOMAIN blocks[i]
            /\ blocks[i].Page = p
            /\ blocks[i].BlockType \in {"LINE", "CELL", "TABLE"}
            /\ Occurs(Normal(extract_text_from_block(blocks[i], idx)), NormalPhrase)

TablesOn(p) ==
    {i \in 1..Len(blocks) :
        blocks[i].BlockType = "TABLE" /\ "Page" \in DOMAIN blocks[i] /\ blocks[i].Page = p}

\* the matrix of a table, the run's year and label: the resolved cell, if any
ColumnOf(m) == resolve_column(m, target_year)
RowOf(m) == find_row_index_by_label(m, REVENUE_LABEL)
Yields(m) ==
    /\ Len(m) > 0
    /\ Len(m[1]) > 0
    /\ RowOf(m) # None
    /\ ColumnOf(m) # None
    /\ Trimmed(m[RowOf(m)[1] + 1][ColumnOf(m)[1] + 1]) # <<>>
YieldOf(m) == Trimmed(m[RowOf(m)[1] + 1][ColumnOf(m)[1] + 1])

Built(t) == build_table_matrix(t, id_to_block)
Skippable(t) == ~Built(t).raised /\ ~Yields(Built(t).matrix)

\* ResolveCell has just resolved a column and a row on matrix
Resolved ==
    /\ pc = "NEXT_TABLE" \/ (pc = "RETURNED" /\ value # None)
    /\ Len(matrix) > 0
    /\ Len(matrix[1]) > 0

\* the cells (row, column), 1-based, of the first two rows that match the year
HeaderHits(m, year) ==
    UNION {{<<r, c>> : c \in {x \in 1..Len(m[r]) : CellMatches(m[r][x], year)}} :
              r \in {y \in 1..Len(m) : y <= 2}}

\* the first of them, rows before columns
FirstHit(hits) ==
    CHOOSE rc \in hits :
        \A o \in hits : rc[1] < o[1] \/ (rc[1] = o[1] /\ rc[2] <= o[2])

YearNotFound(m) == ~Truthy(target_year) \/ HeaderHits(m, target_year[1]) = {}

(***************************************************************************)
(* C1: for a single-page collection whose one table reconstructs to the    *)
(* scenario matrix, the run with year "2024" returns "120" and the         *)
(* diagnostic "page=1, table_extracted_rows=2 cols=3".                     *)
(***************************************************************************)
ScenarioInput ==
    /\ target_year = Some(T_2024)
    /\ Len(blocks) > 0
    /\ \A i \in 1..Len(blocks) : "Page" \in DOMAIN blocks[i] /\ blocks[i].Page = 1
    /\ Cardinality(TablesOn(1)) = 1
    /\ \A i \in TablesOn(1) :
          build_table_matrix(blocks[i], IndexNow)
             = [raised |-> FALSE, matrix |-> ScenarioMatrix]

\* as claimed
C1_Scenario ==
    (Terminated /\ ScenarioInput)
        => (pc = "RETURNED" /\ value = Some(T_120) /\ debug = Some(ScenarioDebug))

\* C1 as amended: ... provided the page holds a LINE, CELL or TABLE whose
\* text contains the statement title
C1_ScenarioOnStatementPage ==
    (Terminated /\ ScenarioInput /\ PageHasPhrase(1))
        => (pc = "RETURNED" /\ value = Some(T_120) /\ debug = Some(ScenarioDebug))

C1_Witness ==
    /\ pc = "RETURNED"
    /\ ScenarioInput
    /\ PageHasPhrase(1)
    /\ value = Some(T_120)

(***************************************************************************)
(* C2: every run ends in exactly one of five outcomes, decided by the      *)
(* stage reached; a value never comes with a failure reason and is never   *)
(* the empty string.                                                       *)
(***************************************************************************)
Reasons == {NO_BLOCKS, NO_PAGE, NO_TABLES, NOT_FOUND}

C2_FiveOutcomes ==
    Terminated =>
       /\ pc = "RETURNED"
       /\ debug # None
       /\ IF Len(blocks) = 0
          THEN value = None /\ debug = Some(NO_BLOCKS)
          ELSE IF \A p \in PagesPresent : ~PageHasPhrase(p)
          THEN value = None /\ debug = Some(NO_PAGE)
          ELSE IF TablesOn(target_page[1]) = {}
          THEN value = None /\ debug = Some(NO_TABLES)
          ELSE \/ value = None /\ debug = Some(NOT_FOUND)
               \/ value # None /\ Len(value[1]) > 0 /\ debug[1] \notin Reasons

(***************************************************************************)
(* C3: the tables of the target page are processed in collection order,    *)
(* each at most once; a table with an empty matrix, no resolvable row or   *)
(* column, or a blank resolved cell is skipped; the run stops at the first *)
(* table whose resolved cell is non-empty, and the value and the reported  *)
(* dimensions are that table's.                                            *)
(***************************************************************************)
C3_TablesInOrder ==
    /\ \A i \in 1..Len(built) : built[i] = i
    /\ Len(built) <= Len(tables)
    /\ pc \in {"RESOLVING_CELL", "NEXT_TABLE", "RAISED"} => Len(built) = table_i
    /\ pc = "BUILDING_MATRIX" => Len(built) = table_i - 1
    /\ \A j \in 1..(Len(built) - 1) : Skippable(tables[j])
    /\ pc = "NEXT_TABLE" => Skippable(tables[table_i])
    /\ (pc = "RETURNED" /\ value # None) =>
          LET k == Len(built)
          IN  /\ k >= 1
              /\ ~Built(tables[k]).raised
              /\ Yields(Built(tables[k]).matrix)
              /\ value = Some(YieldOf(Built(tables[k]).matrix))
              /\ debug = Some(FormatDebug(target_page[1],
                                          Len(Built(tables[k]).matrix),
                                          Len(Built(tables[k]).matrix[1])))
    /\ (pc = "RETURNED" /\ debug = Some(NOT_FOUND)) =>
          /\ Len(built) = Len(tables)
          /\ \A j \in 1..Len(tables) : Skippable(tables[j])

C3_Witness ==
    /\ pc = "RETURNED"
    /\ value # None
    /\ built = <<1, 2>>
    /\ Skippable(tables[1])

(***************************************************************************)
(* C4: the target page is the smallest page number present that contains   *)
(* the phrase; pages are examined in ascending order up to the first match *)
(* and no further, and only tables of that page are used.                  *)
(***************************************************************************)
C4_FirstMatchingPage ==
    /\ \A i \in 1..Len(examined) :
          /\ examined[i] \in PagesPresent
          /\ Cardinality({p \in PagesPresent : p < examined[i]}) = i - 1
    /\ \A i \in 1..(Len(examined) - 1) : ~PageHasPhrase(examined[i])
    /\ target_page # None =>
          /\ examined[Len(examined)] = target_page[1]
          /\ PageHasPhrase(target_page[1])
          /\ \A p \in PagesPresent : p < target_page[1] => ~PageHasPhrase(p)
    /\ target_page = None => \A i \in 1..Len(examined) : ~PageHasPhrase(examined[i])
    /\ debug = Some(NO_PAGE) => \A p \in PagesPresent : ~PageHasPhrase(p)
    /\ \A i \in 1..Len(tables) :
          /\ target_page # None
          /\ tables[i].BlockType = "TABLE"
          /\ tables[i].Page = target_page[1]
    /\ pc \in {"BUILDING_MATRIX", "RESOLVING_CELL", "NEXT_TABLE", "RAISED"} =>
          Len(tables) = Cardinality(TablesOn(target_page[1]))
    /\ value # None =>
          \E i \in TablesOn(target_page[1]) :
              /\ ~Built(blocks[i]).raised
              /\ Yields(Built(blocks[i]).matrix)
              /\ value = Some(YieldOf(Built(blocks[i]).matrix))

\* page 1 is the target although page 2 also holds the phrase and a Revenue
\* row; the run ends without a value
C4_Witness ==
    /\ pc = "RETURNED"
    /\ target_page = Some(1)
    /\ examined = <<1>>
    /\ PageHasPhrase(2)
    /\ \E i \in TablesOn(2) : Yields(Built(blocks[i]).matrix)
    /\ debug = Some(NOT_FOUND)

(***************************************************************************)
(* C5: the matrix of a table whose cells have maximum RowIndex R and       *)
(* maximum ColumnIndex C has exactly R rows of exactly C columns, every    *)
(* position holding the empty string or the non-empty trimmed text of one  *)
(* of the cells; a table with no CELL children yields zero rows.           *)
(***************************************************************************)
JustBuilt == pc \in {"RESOLVING_CELL", "RAISED"}

CellsOf(t) == table_cells(t, id_to_block)

IndexOr(cell, key, d) == IF key \in DOMAIN cell THEN cell[key] ELSE d

\* the largest index among the cells; 0 for no cells or no index
MaxIndex(cells, key) ==
    LET S == {IndexOr(cells[k], key, 0) : k \in 1..Len(cells)}
    IN  IF S = {} THEN 0 ELSE CHOOSE x \in S : \A y \in S : y <= x

ShapeHolds(m, cells) ==
    /\ Len(m) = MaxIndex(cells, "RowIndex")
    /\ \A r \in 1..Len(m) : Len(m[r]) = MaxIndex(cells, "ColumnIndex")
    /\ \A r \in 1..Len(m) : \A c \in 1..Len(m[r]) :
          \/ m[r][c] = <<>>
          \/ /\ m[r][c] = Trimmed(m[r][c])
             /\ \E k \in 1..Len(cells) :
                   m[r][c] = extract_text_from_block(cells[k], id_to_block)
    /\ Len(cells) = 0 => Len(m) = 0

C5_MatrixShape ==
    JustBuilt => (pc # "RAISED" /\ ShapeHolds(matrix, CellsOf(tables[table_i])))

(***************************************************************************)
(* C9: for any integer or absent RowIndex/ColumnIndex the build never      *)
(* raises, and a cell's text is written only at (RowIndex-1, ColumnIndex-1)*)
(* and only when that position is in bounds and the text non-empty; a cell *)
(* out of bounds changes no grid position.                                 *)
(***************************************************************************)
\* the text of the last cell placed at zero-based (r, c) with a non-empty
\* text, the empty string when there is none
TextAt(cells, r, c) ==
    LET at == {k \in 1..Len(cells) :
                  /\ IndexOr(cells[k], "RowIndex", 1) - 1 = r
                  /\ IndexOr(cells[k], "ColumnIndex", 1) - 1 = c
                  /\ extract_text_from_block(cells[k], id_to_block) # <<>>}
    IN  IF at = {} THEN <<>>
        ELSE extract_text_from_block(cells[CHOOSE k \in at : \A j \in at : j <= k],
                                     id_to_block)

C9_MalformedDefense ==
    JustBuilt =>
       /\ pc # "RAISED"
       /\ \A r \in 1..Len(matrix) : \A c \in 1..Len(matrix[r]) :
             matrix[r][c] = TextAt(CellsOf(tables[table_i]), r - 1, c - 1)

(***************************************************************************)
(* C6: with at least two columns, when no year is supplied or the year     *)
(* matches no cell of the first two rows, the resolved column index is 1   *)
(* (the scenario table without a year gives "100"); with fewer than two    *)
(* columns no column is resolved and the table yields no value.            *)
(***************************************************************************)
C6_FallbackColumn ==
    /\ Resolved =>
          /\ (YearNotFound(matrix) /\ Len(matrix[1]) >= 2) => year_col_idx = Some(1)
          /\ (YearNotFound(matrix) /\ Len(matrix[1]) < 2) =>
                (year_col_idx = None /\ pc = "NEXT_TABLE")
          /\ (matrix = ScenarioMatrix /\ ~Truthy(target_year)) => value = Some(T_100)
    /\ (Len(matrix) > 0 /\ Len(matrix[1]) = 0) => value = None

C6_Witness ==
    /\ pc = "RETURNED"
    /\ target_year = None
    /\ matrix = ScenarioMatrix
    /\ year_col_idx = Some(1)
    /\ value = Some(T_100)

(***************************************************************************)
(* C10: the year selects the column of the first matching cell of rows 0   *)
(* and 1, row 0 left to right and then row 1; a year found only in a later *)
(* row selects no column and the fallback applies.                         *)
(***************************************************************************)
C10_HeaderRowsOnly ==
    (Resolved /\ Truthy(target_year)) =>
        LET hits == HeaderHits(matrix, target_year[1])
        IN  IF hits # {}
            THEN year_col_idx = Some(FirstHit(hits)[2] - 1)
            ELSE year_col_idx = (IF Len(matrix[1]) >= 2 THEN Some(1) ELSE None)

\* the year occurs in the third row only and the second column is taken
C10_Witness ==
    /\ Resolved
    /\ Truthy(target_year)
    /\ HeaderHits(matrix, target_year[1]) = {}
    /\ Len(matrix) >= 3
    /\ \E c \in 1..Len(matrix[3]) : CellMatches(matrix[3][c], target_year[1])
    /\ year_col_idx = Some(1)

(***************************************************************************)
(* C7: both lookups give the same result when the cell texts or the query  *)
(* are replaced by variants differing only in letter case or surrounding   *)
(* whitespace, and a cell matches whenever its trimmed, lowercased text    *)
(* equals or contains the trimmed, lowercased query.                       *)
(***************************************************************************)
RowHits(tb, q) == {r \in 1..Len(tb) : Len(tb[r]) > 0 /\ CellMatches(tb[r][1], q)}

ExpectedColumn(tb, q) ==
    IF HeaderHits(tb, q) = {} THEN None ELSE Some(FirstHit(HeaderHits(tb, q))[2] - 1)

ExpectedRow(tb, q) ==
    IF RowHits(tb, q) = {} THEN None
    ELSE Some((CHOOSE r \in RowHits(tb, q) : \A o \in RowHits(tb, q) : r <= o) - 1)

C7_MatchInsensitive ==
    /\ m_col # None =>
          /\ m_col[1] = ExpectedColumn(m_table, m_query)
          /\ v_col = m_col
    /\ m_row # None =>
          /\ m_row[1] = ExpectedRow(m_table, m_query)
          /\ v_row = m_row

(***************************************************************************)
(* C8: a WORD yields its raw text unchanged; any other block yields the    *)
(* non-empty texts of the WORD blocks that are direct targets of its CHILD *)
(* relationships, in relationship order, joined by single spaces and       *)
(* trimmed; MERGED_CELL targets, SELECTION_ELEMENT children, ids missing   *)
(* from the index and deeper words contribute nothing.                     *)
(***************************************************************************)
ChildTargets(b) ==
    LET rels == IndexOr(b, "Relationships", <<>>)
    IN  Flatten([k \in 1..Len(rels) |->
                    IF rels[k].Type = "CHILD" THEN rels[k].Ids ELSE <<>>])

IsWordWithText(id) ==
    /\ Some(id) \in DOMAIN id_to_block
    /\ id_to_block[Some(id)].BlockType = "WORD"
    /\ id_to_block[Some(id)].Text # <<>>

RECURSIVE JoinSpaced(_)
JoinSpaced(ws) ==
    IF Len(ws) = 0 THEN <<>>
    ELSE IF Len(ws) = 1 THEN ws[1]
    ELSE JoinSpaced(SubSeq(ws, 1, Len(ws) - 1)) \o <<32>> \o ws[Len(ws)]

ExpectedText(b) ==
    IF b.BlockType = "WORD" THEN b.Text
    ELSE LET ids == SelectSeq(ChildTargets(b), IsWordWithText)
         IN  Trimmed(JoinSpaced([k \in 1..Len(ids) |-> id_to_block[Some(ids[k])].Text]))

C8_TextOfBlock == u_text # None => u_text[1] = ExpectedText(u_block[1])

\* a cell with a merged-cell relationship, a selection element, a dangling
\* id, an empty word, a nested line and a blank word around its one word
C8_Witness ==
    /\ u_block # None
    /\ u_block[1].BlockType = "CELL"
    /\ \E k \in 1..Len(u_block[1].Relationships) :
          u_block[1].Relationships[k].Type = "MERGED_CELL"
    /\ u_text = Some(REVENUE_LABEL)

====
